---- MODULE Spec2Model ----
(***************************************************************************)
(* A model of src/main.py: a Flask service that issues short-lived PS512   *)
(* JWTs into a cookie pair (/issue), verifies the authority cookie on a    *)
(* protected call (/api/ping), clears the pair (/reset), renders a page    *)
(* from the display cookie (/demo) and publishes its public key            *)
(* (/.well-known/jwks.json).  Spec runs one client's exchanges one after   *)
(* the other, SpecVerify the protected call on every cookie a client can   *)
(* send, SpecConcurrent the handlers in steps on two threads.              *)
(*                                                                         *)
(* Time is in whole seconds.  The issuer truncates the clock with int();   *)
(* the verifier (PyJWT) compares the integer claims with a float clock,    *)
(* and for integers e, l and a real t:  e <= t - l  iff  e <= floor(t) - l *)
(* and  e > t + l  iff  e > floor(t) + l,  so whole seconds lose nothing.  *)
(*                                                                         *)
(* Cryptography is symbolic: a signature is the record of who signed what  *)
(* under which algorithm, and it verifies exactly when that record matches *)
(* the key, the algorithm and the bytes presented.  uuid4() is a generator *)
(* of values that never repeat.                                            *)
(***************************************************************************)
EXTENDS Integers, Sequences, FiniteSets, TLC

VARIABLES
    PRIV_JWK,   \* the loaded private JWK (module global, main.py:19)
    KID,        \* the key id read once at load (main.py:22)
    clock,      \* the wall clock, seconds
    uuidCalls,  \* how many times uuid.uuid4() has been called
    issued,     \* history: the calls of issue_jwt_for_uid, in order, each
                \* [uid, token, exp]: its argument and what it returned
    jar,        \* the client's cookie jar: name -> [value, path, ...]
    req,        \* the last request as the handler saw it
    resp,       \* the last response
    threads     \* the requests in flight, one per worker thread: where
                \* its handler stands and what it holds in its locals

vars == <<PRIV_JWK, KID, clock, uuidCalls, issued, jar, req, resp, threads>>

----------------------------------------------------------------------------
(* Bounds of the model *)

MaxIssue == 2   \* tokens issued in one run
MaxEarly == 0   \* the clock is read at 0..MaxEarly, then around the expiry
MaxLate == 1    \* ... up to MaxLate seconds past the end of acceptance

----------------------------------------------------------------------------
(* Configuration (main.py:24-30) and the literals of the handlers *)

ALG == "PS512"
ISSUER == "JWT API Simulation"
AUDIENCE == "JWT API Simulation"
LEEWAY_SECONDS == 2
COOKIE_NAME == "session_jwt"
COOKIE_EXP == "jwt_exp"
TOKEN_LIFETIME == 30
COOKIE_MAX_AGE == 32

----------------------------------------------------------------------------
(* uuid.uuid4().hex: the n-th value drawn; no two draws are equal *)

UuidHex == <<"uuid-1", "uuid-2", "uuid-3", "uuid-4", "uuid-5", "uuid-6">>

uuid4_hex(n) == UuidHex[n + 1]

----------------------------------------------------------------------------
(* Key material *)

\* What the secret may hold: one RSA private key, with or without a kid,
\* with or without use/alg members of its own.
RsaPrivate == [kty |-> "RSA", n |-> "n-server", e |-> "AQAB", d |-> "d-server"]

LoadableJwks ==
    { RsaPrivate,
      RsaPrivate @@ [kid |-> "key-2024", use |-> "enc", alg |-> "RS256"] }

PrivateMembers == {"d"}

\* jwk.JWK.export_public(): every member but the private ones
export_public(key) ==
    [m \in (DOMAIN key) \ PrivateMembers |-> key[m]]

\* The module-level load: a kid is generated only when the key has none.
LoadKey(json, calls) ==
    IF "kid" \notin DOMAIN export_public(json)
    THEN [jwk |-> ("kid" :> uuid4_hex(calls)) @@ json, calls |-> calls + 1]
    ELSE [jwk |-> json, calls |-> calls]

private_pem(key) == [n |-> key.n, d |-> key.d]

public_pem(key) == [n |-> key.n, e |-> key.e]

----------------------------------------------------------------------------
(* Tokens.  A token is its three segments: header, claims, signature, and *)
(* enc says whether the segments decode (base64url + JSON).               *)

\* RSASSA-PSS signing of header.payload with the private key
Sign(pem, alg, header, claims) ==
    [n |-> pem.n, alg |-> alg, header |-> header, claims |-> claims,
     bits |-> "intact"]

\* jwt.encode(claims, key, algorithm, headers)
jwt_encode(claims, pem, alg, headers) ==
    [enc |-> "ok", header |-> headers, claims |-> claims,
     sig |-> Sign(pem, alg, headers, claims)]

\* (a slip: the subject claim given the string "uid", not the variable)
issue_claims_sub_literal(uid, iat, calls) ==
    [iss |-> ISSUER, aud |-> AUDIENCE, sub |-> <<"u", "i", "d">>,
     iat |-> iat, nbf |-> iat - LEEWAY_SECONDS, exp |-> iat + TOKEN_LIFETIME,
     jti |-> uuid4_hex(calls)]

\* (a slip: the token given the lifetime of the cookie)
issue_claims_cookie_lifetime(uid, iat, calls) ==
    [iss |-> ISSUER, aud |-> AUDIENCE, sub |-> uid,
     iat |-> iat, nbf |-> iat - LEEWAY_SECONDS, exp |-> iat + COOKIE_MAX_AGE,
     jti |-> uuid4_hex(calls)]

\* (a slip: the token id derived from the subject and the second)
issue_claims_jti_from_time(uid, iat, calls) ==
    [iss |-> ISSUER, aud |-> AUDIENCE, sub |-> uid,
     iat |-> iat, nbf |-> iat - LEEWAY_SECONDS, exp |-> iat + TOKEN_LIFETIME,
     jti |-> <<uid, iat>>]

\* The claims issue_jwt_for_uid builds; `calls` numbers its uuid4 draw
issue_claims(uid, iat, calls) ==
    [iss |-> ISSUER, aud |-> AUDIENCE, sub |-> uid,
     iat |-> iat, nbf |-> iat - LEEWAY_SECONDS, exp |-> iat + TOKEN_LIFETIME,
     jti |-> uuid4_hex(calls)]

\* (a slip: a key id made anew for every token)
issue_headers_new_kid(kid, calls) ==
    [alg |-> ALG, kid |-> uuid4_hex(calls + 1), typ |-> "JWT"]

\* The header issue_jwt_for_uid builds
issue_headers(kid, calls) == [alg |-> ALG, kid |-> kid, typ |-> "JWT"]

\* issue_jwt_for_uid(uid): the token and the expiry handed to the caller
issue_jwt_for_uid(uid, now, key, kid, calls) ==
    LET iat == now
        claims == issue_claims(uid, iat, calls)
        headers == issue_headers(kid, calls)
    IN  [token |-> jwt_encode(claims, private_pem(key), ALG, headers),
         exp |-> claims.exp]

----------------------------------------------------------------------------
(* PyJWT, as api_ping calls it.  A result is [exc |-> "none", ...] or the  *)
(* exception raised: its class and its message.                           *)

Raise(class, msg) == [exc |-> class, msg |-> msg]

\* The classes that derive from jwt.InvalidTokenError (every PyJWT error
\* raised by decode does)
InvalidTokenErrors ==
    {"DecodeError", "InvalidSignatureError", "InvalidAlgorithmError",
     "MissingRequiredClaimError", "ImmatureSignatureError",
     "ExpiredSignatureError", "InvalidIssuerError", "InvalidAudienceError"}

\* api_jws._load: split in three segments (the empty string has none) and
\* base64url-decode each of them, the header as JSON
jws_load(token) ==
    CASE token.enc = "empty" -> Raise("DecodeError", "Not enough segments")
      [] token.enc = "header" -> Raise("DecodeError", "Invalid header padding")
      [] token.enc = "crypto" -> Raise("DecodeError", "Invalid crypto padding")
      [] OTHER -> [exc |-> "none", header |-> token.header,
                   payload |-> token.claims, signature |-> token.sig]

\* jwt.get_unverified_header(token)
get_unverified_header(token) ==
    LET l == jws_load(token)
    IN  IF l.exc # "none" THEN l ELSE [exc |-> "none", header |-> l.header]

\* (a slip: the signature checked for its key, not for what it covers)
alg_verify_key_only(alg, pem, header, payload, sig) ==
    /\ alg # "none"
    /\ sig.n = pem.n
    /\ sig.alg = alg

\* RSAPSSAlgorithm.verify: the signature was made over these very bytes, with
\* this algorithm, by the private half of the key.  The "none" algorithm
\* verifies nothing.
alg_verify(alg, pem, header, payload, sig) ==
    /\ alg # "none"
    /\ sig.bits = "intact"
    /\ sig.n = pem.n
    /\ sig.alg = alg
    /\ sig.header = header
    /\ sig.claims = payload

\* (a slip: the algorithm taken from the header, no list of allowed ones)
jws_verify_signature_header_alg(header, payload, sig, pem, algorithms) ==
    IF "alg" \notin DOMAIN header
    THEN Raise("InvalidAlgorithmError", "Algorithm not specified")
    ELSE IF ~ alg_verify(header.alg, pem, header, payload, sig)
    THEN Raise("InvalidSignatureError", "Signature verification failed")
    ELSE [exc |-> "none"]

\* api_jws._verify_signature: the algorithm named by the header must be one
\* of the caller's algorithms; then the signature is verified with it
jws_verify_signature(header, payload, sig, pem, algorithms) ==
    IF "alg" \notin DOMAIN header
    THEN Raise("InvalidAlgorithmError", "Algorithm not specified")
    ELSE IF header.alg \notin algorithms
    THEN Raise("InvalidAlgorithmError", "The specified alg value is not allowed")
    ELSE IF ~ alg_verify(header.alg, pem, header, payload, sig)
    THEN Raise("InvalidSignatureError", "Signature verification failed")
    ELSE [exc |-> "none"]

\* api_jwt._validate_required_claims: the first missing one, in the order of
\* the caller's list
RECURSIVE validate_required_claims(_, _)
validate_required_claims(payload, require) ==
    IF require = <<>> THEN [exc |-> "none"]
    ELSE IF Head(require) \notin DOMAIN payload
    THEN Raise("MissingRequiredClaimError", Head(require))
    ELSE validate_required_claims(payload, Tail(require))

validate_iat(payload, now, leeway) ==
    IF payload.iat > now + leeway
    THEN Raise("ImmatureSignatureError", "The token is not yet valid (iat)")
    ELSE [exc |-> "none"]

validate_nbf(payload, now, leeway) ==
    IF payload.nbf > now + leeway
    THEN Raise("ImmatureSignatureError", "The token is not yet valid (nbf)")
    ELSE [exc |-> "none"]

\* (a slip: the leeway granted twice)
validate_exp_double_leeway(payload, now, leeway) ==
    IF payload.exp + leeway <= now - leeway
    THEN Raise("ExpiredSignatureError", "Signature has expired")
    ELSE [exc |-> "none"]

validate_exp(payload, now, leeway) ==
    IF payload.exp <= now - leeway
    THEN Raise("ExpiredSignatureError", "Signature has expired")
    ELSE [exc |-> "none"]

validate_iss(payload, issuer) ==
    IF "iss" \notin DOMAIN payload
    THEN Raise("MissingRequiredClaimError", "iss")
    ELSE IF payload.iss # issuer
    THEN Raise("InvalidIssuerError", "Invalid issuer")
    ELSE [exc |-> "none"]

validate_aud(payload, audience) ==
    IF "aud" \notin DOMAIN payload
    THEN Raise("MissingRequiredClaimError", "aud")
    ELSE IF payload.aud # audience
    THEN Raise("InvalidAudienceError", "Audience doesn't match")
    ELSE [exc |-> "none"]

\* The first check of a sequence that raises, or no exception
RECURSIVE FirstRaised(_)
FirstRaised(checks) ==
    IF checks = <<>> THEN [exc |-> "none"]
    ELSE IF Head(checks).exc # "none" THEN Head(checks)
    ELSE FirstRaised(Tail(checks))

\* (a slip: issuer and audience looked at before the times)
validate_claims_issuer_first(payload, require, audience, issuer, leeway, now) ==
    LET required == validate_required_claims(payload, require)
    IN  IF required.exc # "none" THEN required
        ELSE FirstRaised(<<
               validate_iss(payload, issuer),
               validate_aud(payload, audience),
               validate_iat(payload, now, leeway),
               validate_nbf(payload, now, leeway),
               validate_exp(payload, now, leeway) >>)

\* api_jwt._validate_claims: required claims, then iat, nbf, exp, iss, aud;
\* a time claim is looked at only when present
validate_claims(payload, require, audience, issuer, leeway, now) ==
    LET required == validate_required_claims(payload, require)
    IN  IF required.exc # "none" THEN required
        ELSE FirstRaised(<<
               IF "iat" \in DOMAIN payload
                 THEN validate_iat(payload, now, leeway) ELSE [exc |-> "none"],
               IF "nbf" \in DOMAIN payload
                 THEN validate_nbf(payload, now, leeway) ELSE [exc |-> "none"],
               IF "exp" \in DOMAIN payload
                 THEN validate_exp(payload, now, leeway) ELSE [exc |-> "none"],
               validate_iss(payload, issuer),
               validate_aud(payload, audience) >>)

\* jwt.decode(token, key, algorithms=, audience=, issuer=, options=, leeway=)
jwt_decode(token, pem, algorithms, audience, issuer, require, leeway, now) ==
    LET l == jws_load(token)
    IN  IF l.exc # "none" THEN l
        ELSE LET s == jws_verify_signature(l.header, l.payload, l.signature,
                                           pem, algorithms)
             IN  IF s.exc # "none" THEN s
                 ELSE LET v == validate_claims(l.payload, require, audience,
                                               issuer, leeway, now)
                      IN  IF v.exc # "none" THEN v
                          ELSE [exc |-> "none", claims |-> l.payload]

----------------------------------------------------------------------------
(* The handlers.  A response is [status, kind, body, set_cookie]; the     *)
(* cookies of a request are a function from names to values.              *)

Response(status, kind, body) ==
    [status |-> status, kind |-> kind, body |-> body, set_cookie |-> <<>>]

jsonify(body, status) == Response(status, "json", body)

redirect(location) == Response(302, "redirect", location)

\* str(n) of a non-negative int: its decimal digits
Digits == <<"0", "1", "2", "3", "4", "5", "6", "7", "8", "9">>

RECURSIVE str(_)
str(n) ==
    IF n < 10 THEN <<Digits[n + 1]>>
    ELSE str(n \div 10) \o <<Digits[(n % 10) + 1]>>

\* int(s) of a string: the number its decimal digits write, or ValueError
IsDigit(c) == \E d \in DOMAIN Digits : Digits[d] = c

DigitValue(c) == (CHOOSE d \in DOMAIN Digits : Digits[d] = c) - 1

RECURSIVE int_digits(_)
int_digits(s) ==
    IF s = <<>> THEN 0
    ELSE 10 * int_digits(SubSeq(s, 1, Len(s) - 1)) + DigitValue(s[Len(s)])

int(s) ==
    IF s # <<>> /\ \A i \in DOMAIN s : IsDigit(s[i])
    THEN [exc |-> "none", value |-> int_digits(s)]
    ELSE Raise("ValueError", "invalid literal for int() with base 10")

\* Response.set_cookie / Response.delete_cookie: one directive more
set_cookie(r, name, value, max_age, httponly, path) ==
    [r EXCEPT !.set_cookie = Append(@,
        [name |-> name, value |-> value, max_age |-> max_age,
         httponly |-> httponly, secure |-> FALSE, samesite |-> "Lax",
         path |-> path])]

delete_cookie(r, name, path) ==
    [r EXCEPT !.set_cookie = Append(@,
        [name |-> name, value |-> <<>>, max_age |-> 0,
         httponly |-> FALSE, secure |-> FALSE, samesite |-> "none",
         path |-> path])]

\* (a slip: the display cookie given the lifetime of the token)
set_session_display_lifetime(r, token, exp) ==
    set_cookie(
        set_cookie(r, COOKIE_NAME, token, COOKIE_MAX_AGE, TRUE, "/"),
        COOKIE_EXP, str(exp), TOKEN_LIFETIME, FALSE, "/demo")

\* (a slip: the cookies given the lifetime of the token, without the leeway)
set_session_token_lifetime(r, token, exp) ==
    set_cookie(
        set_cookie(r, COOKIE_NAME, token, TOKEN_LIFETIME, TRUE, "/"),
        COOKIE_EXP, str(exp), TOKEN_LIFETIME, FALSE, "/demo")

\* set_session(resp, token, exp)
set_session(r, token, exp) ==
    set_cookie(
        set_cookie(r, COOKIE_NAME, token, COOKIE_MAX_AGE, TRUE, "/"),
        COOKIE_EXP, str(exp), COOKIE_MAX_AGE, FALSE, "/demo")

\* (a slip: the authority cookie deleted at the path of the display cookie)
clear_session_display_path(r) ==
    delete_cookie(delete_cookie(r, COOKIE_NAME, "/demo"), COOKIE_EXP, "/demo")

\* clear_session(resp)
clear_session(r) ==
    delete_cookie(delete_cookie(r, COOKIE_NAME, "/"), COOKIE_EXP, "/demo")

\* str.strip() on a string of characters
IsSpace(c) == c = " "

RECURSIVE lstrip(_)
lstrip(s) ==
    IF s # <<>> /\ IsSpace(Head(s)) THEN lstrip(Tail(s)) ELSE s

RECURSIVE rstrip(_)
rstrip(s) ==
    IF s # <<>> /\ IsSpace(s[Len(s)])
    THEN rstrip(SubSeq(s, 1, Len(s) - 1)) ELSE s

strip(s) == rstrip(lstrip(s))

\* (a slip: the uid tested before it is trimmed)
issue_untrimmed(form, now, key, kid, calls) ==
    LET raw == IF "uid" \in DOMAIN form THEN form.uid ELSE <<>>
    IN  IF raw = <<>>
        THEN [resp |-> Response(400, "text", "UID is required"),
              calls |-> calls, made |-> <<>>]
        ELSE LET pair == issue_jwt_for_uid(strip(raw), now, key, kid, calls)
             IN  [resp |-> set_session(redirect("/demo"), pair.token, pair.exp),
                  calls |-> calls + 1,
                  made |-> <<[uid |-> strip(raw)] @@ pair>>]

\* POST /issue.  The result carries, beside the response, what the call did
\* to the process: the uuid4 calls made and the pair the issuer returned.
issue(form, now, key, kid, calls) ==
    LET uid == strip(IF "uid" \in DOMAIN form THEN form.uid ELSE <<>>)
    IN  IF uid = <<>>
        THEN [resp |-> Response(400, "text", "UID is required"),
              calls |-> calls, made |-> <<>>]
        ELSE LET pair == issue_jwt_for_uid(uid, now, key, kid, calls)
             IN  [resp |-> set_session(redirect("/demo"), pair.token, pair.exp),
                  calls |-> calls + 1, made |-> <<[uid |-> uid] @@ pair>>]

\* (a slip: the expired token answered 403)
ping_error_expired_forbidden(e) ==
    IF e.exc = "ExpiredSignatureError"
    THEN jsonify([ok |-> FALSE, error |-> <<"Token expired">>], 403)
    ELSE IF e.exc = "InvalidAudienceError"
    THEN jsonify([ok |-> FALSE, error |-> <<"aud mismatch">>], 401)
    ELSE IF e.exc = "InvalidIssuerError"
    THEN jsonify([ok |-> FALSE, error |-> <<"iss mismatch">>], 401)
    ELSE IF e.exc \in InvalidTokenErrors
    THEN jsonify([ok |-> FALSE, error |-> <<"Invalid Token: ", e.msg>>], 401)
    ELSE Response(500, "text", "Internal Server Error")

\* The except clauses of api_ping, in their order
ping_error(e) ==
    IF e.exc = "ExpiredSignatureError"
    THEN jsonify([ok |-> FALSE, error |-> <<"Token expired">>], 401)
    ELSE IF e.exc = "InvalidAudienceError"
    THEN jsonify([ok |-> FALSE, error |-> <<"aud mismatch">>], 401)
    ELSE IF e.exc = "InvalidIssuerError"
    THEN jsonify([ok |-> FALSE, error |-> <<"iss mismatch">>], 401)
    ELSE IF e.exc \in InvalidTokenErrors
    THEN jsonify([ok |-> FALSE, error |-> <<"Invalid Token: ", e.msg>>], 401)
    ELSE Response(500, "text", "Internal Server Error")

\* A cookie sent with no value: "not token" holds of it as of no cookie
EmptyString == [enc |-> "empty"]

\* (a change: tokens naming another key id turned away)
api_ping_kid_checked(cookies, now, key) ==
    IF COOKIE_NAME \notin DOMAIN cookies \/ cookies[COOKIE_NAME] = EmptyString
    THEN jsonify([ok |-> FALSE, error |-> <<"Missing JWT (Cookie)">>], 401)
    ELSE LET token == cookies[COOKIE_NAME]
             h == get_unverified_header(token)
         IN  IF h.exc # "none"
             THEN jsonify([ok |-> FALSE,
                           error |-> <<"Cannot read header: ", h.msg>>], 400)
             ELSE IF h.header.kid # export_public(key).kid
             THEN jsonify([ok |-> FALSE, error |-> <<"kid mismatch">>], 401)
             ELSE LET d == jwt_decode(token, public_pem(key), {ALG}, AUDIENCE,
                                      ISSUER,
                                      <<"exp", "iat", "nbf", "iss", "aud", "sub">>,
                                      LEEWAY_SECONDS, now)
                  IN  IF d.exc = "none"
                      THEN jsonify([ok |-> TRUE,
                                    message |-> "Validation successful",
                                    now |-> now, header |-> h.header,
                                    claims |-> d.claims], 200)
                      ELSE ping_error(d)

\* (a slip: the cookie tested for presence, "is None", not for emptiness)
api_ping_presence_only(cookies, now, key) ==
    IF COOKIE_NAME \notin DOMAIN cookies
    THEN jsonify([ok |-> FALSE, error |-> <<"Missing JWT (Cookie)">>], 401)
    ELSE LET token == cookies[COOKIE_NAME]
             h == get_unverified_header(token)
         IN  IF h.exc # "none"
             THEN jsonify([ok |-> FALSE,
                           error |-> <<"Cannot read header: ", h.msg>>], 400)
             ELSE LET d == jwt_decode(token, public_pem(key), {ALG}, AUDIENCE,
                                      ISSUER,
                                      <<"exp", "iat", "nbf", "iss", "aud", "sub">>,
                                      LEEWAY_SECONDS, now)
                  IN  IF d.exc = "none"
                      THEN jsonify([ok |-> TRUE,
                                    message |-> "Validation successful",
                                    now |-> now, header |-> h.header,
                                    claims |-> d.claims], 200)
                      ELSE ping_error(d)

\* (a slip: the expiry taken from the display cookie when it is there)
api_ping_trusting_display(cookies, now, key) ==
    IF COOKIE_NAME \notin DOMAIN cookies \/ cookies[COOKIE_NAME] = EmptyString
    THEN jsonify([ok |-> FALSE, error |-> <<"Missing JWT (Cookie)">>], 401)
    ELSE IF /\ COOKIE_EXP \in DOMAIN cookies
            /\ int(cookies[COOKIE_EXP]).exc = "none"
            /\ int(cookies[COOKIE_EXP]).value + LEEWAY_SECONDS <= now
    THEN jsonify([ok |-> FALSE, error |-> <<"Token expired">>], 401)
    ELSE LET token == cookies[COOKIE_NAME]
             h == get_unverified_header(token)
         IN  IF h.exc # "none"
             THEN jsonify([ok |-> FALSE,
                           error |-> <<"Cannot read header: ", h.msg>>], 400)
             ELSE LET d == jwt_decode(token, public_pem(key), {ALG}, AUDIENCE,
                                      ISSUER,
                                      <<"exp", "iat", "nbf", "iss", "aud", "sub">>,
                                      LEEWAY_SECONDS, now)
                  IN  IF d.exc = "none"
                      THEN jsonify([ok |-> TRUE,
                                    message |-> "Validation successful",
                                    now |-> now, header |-> h.header,
                                    claims |-> d.claims], 200)
                      ELSE ping_error(d)

\* (a change: a server-side session, only the token issued last is honoured)
api_ping_latest_only(cookies, now, key) ==
    IF COOKIE_NAME \notin DOMAIN cookies \/ cookies[COOKIE_NAME] = EmptyString
    THEN jsonify([ok |-> FALSE, error |-> <<"Missing JWT (Cookie)">>], 401)
    ELSE IF issued # <<>> /\ cookies[COOKIE_NAME] # issued[Len(issued)].token
    THEN jsonify([ok |-> FALSE, error |-> <<"Invalid Token: ", "revoked">>], 401)
    ELSE LET token == cookies[COOKIE_NAME]
             h == get_unverified_header(token)
         IN  IF h.exc # "none"
             THEN jsonify([ok |-> FALSE,
                           error |-> <<"Cannot read header: ", h.msg>>], 400)
             ELSE LET d == jwt_decode(token, public_pem(key), {ALG}, AUDIENCE,
                                      ISSUER,
                                      <<"exp", "iat", "nbf", "iss", "aud", "sub">>,
                                      LEEWAY_SECONDS, now)
                  IN  IF d.exc = "none"
                      THEN jsonify([ok |-> TRUE,
                                    message |-> "Validation successful",
                                    now |-> now, header |-> h.header,
                                    claims |-> d.claims], 200)
                      ELSE ping_error(d)

\* GET /api/ping
api_ping(cookies, now, key) ==
    IF COOKIE_NAME \notin DOMAIN cookies \/ cookies[COOKIE_NAME] = EmptyString
    THEN jsonify([ok |-> FALSE, error |-> <<"Missing JWT (Cookie)">>], 401)
    ELSE LET token == cookies[COOKIE_NAME]
             h == get_unverified_header(token)
         IN  IF h.exc # "none"
             THEN jsonify([ok |-> FALSE,
                           error |-> <<"Cannot read header: ", h.msg>>], 400)
             ELSE LET d == jwt_decode(token, public_pem(key), {ALG}, AUDIENCE,
                                      ISSUER,
                                      <<"exp", "iat", "nbf", "iss", "aud", "sub">>,
                                      LEEWAY_SECONDS, now)
                  IN  IF d.exc = "none"
                      THEN jsonify([ok |-> TRUE,
                                    message |-> "Validation successful",
                                    now |-> now, header |-> h.header,
                                    claims |-> d.claims], 200)
                      ELSE ping_error(d)

\* GET /reset
reset == clear_session(redirect("/"))

\* GET /demo: the page, rendered with the expiry the display cookie states
\* (0 when the cookie is absent, empty or no number)
demo(cookies, kid) ==
    LET exp_cookie == IF COOKIE_EXP \in DOMAIN cookies
                      THEN cookies[COOKIE_EXP] ELSE <<>>
        parsed == int(exp_cookie)
        exp_int == IF exp_cookie # <<>> /\ parsed.exc = "none"
                   THEN parsed.value ELSE 0
    IN  Response(200, "html",
                 [alg |-> ALG, kid |-> kid, iss |-> ISSUER, aud |-> AUDIENCE,
                  exp |-> exp_int])

\* public_jwk_obj(): setdefault leaves a member the key already has
public_jwk_obj(key) ==
    LET pub == export_public(key)
    IN  pub @@ [use |-> "sig", alg |-> ALG]

\* (a slip: pub is PRIV_JWK itself, not a copy: setdefault writes to it)
public_jwk_obj_in_place(key) == key @@ [use |-> "sig", alg |-> ALG]

\* The global PRIV_JWK after public_jwk_obj(): pub is parsed anew from the
\* exported JSON, the setdefault calls write to that copy
public_jwk_obj_global(key) == key

\* GET /.well-known/jwks.json
jwks(key) == jsonify([keys |-> <<public_jwk_obj(key)>>], 200)

----------------------------------------------------------------------------
(* The client.  A browser keeps each cookie under (name, path) until its  *)
(* max-age has passed and sends it with the requests its path covers.     *)
(* Nothing binds a client to that: it may also keep a token it was given  *)
(* and present it later.                                                   *)

RECURSIVE ApplySetCookie(_, _, _)
ApplySetCookie(j, directives, now) ==
    IF directives = <<>> THEN j
    ELSE LET d == Head(directives)
             k == <<d.name, d.path>>
             rest == [c \in (DOMAIN j) \ {k} |-> j[c]]
             j1 == IF d.max_age <= 0 THEN rest
                   ELSE (k :> [value |-> d.value, expires |-> now + d.max_age,
                               httponly |-> d.httponly]) @@ rest
         IN  ApplySetCookie(j1, Tail(directives), now)

PathMatches(cookiePath, path) == cookiePath = "/" \/ cookiePath = path

\* The Cookie header a browser sends to `path` at `now`
BrowserCookies(j, path, now) ==
    LET live == {k \in DOMAIN j : PathMatches(k[2], path) /\ j[k].expires > now}
    IN  [name \in {k[1] : k \in live} |->
            j[CHOOSE k \in live : k[1] = name].value]

\* The forms a client may post to /issue: no uid field, or a uid of spaces
\* and letters
UidInputs ==
    { <<>>, <<" ">>, <<" ", " ">>, <<"a">>, <<" ", "a", " ">>,
      <<"a", " ", "b">> }

Forms == { <<>> } \cup { [uid |-> u] : u \in UidInputs }

IssuedTokens == { issued[i].token : i \in DOMAIN issued }

\* The instants at which the clock is read: the first seconds, and the
\* seconds around the end of the acceptance window of a token issued at 0
ClockReadings ==
    (0 .. MaxEarly) \cup
    ((TOKEN_LIFETIME - 1) .. (TOKEN_LIFETIME + LEEWAY_SECONDS + MaxLate))

----------------------------------------------------------------------------
(* What a client may put in the authority cookie.  Starting from a token  *)
(* as the issuer makes it, at the current clock or at a clock that runs   *)
(* ahead: another header, other or fewer claims, and a signature that is  *)
(* the original one, one made anew over the changed bytes by a holder of  *)
(* the server's key (another instance of the service) or of another key,  *)
(* or one with a bit flipped; or segments that do not decode.             *)

OtherPem == [n |-> "n-other", d |-> "d-other"]

ClockAhead == TOKEN_LIFETIME + (2 * LEEWAY_SECONDS) + MaxLate + 1

PresentedHeaders(kid) ==
    { [alg |-> a, kid |-> k, typ |-> "JWT"] :
        a \in {ALG, "none", "RS256"}, k \in {kid, "kid-of-another-instance"} }

DroppedClaims == { {}, {"sub"}, {"exp"}, {"iss"}, {"exp", "iss"} }

PresentedClaims(genuine) ==
    { [c \in (DOMAIN genuine) \ drop |->
         CASE c = "iss" -> i [] c = "aud" -> a [] OTHER -> genuine[c]] :
        i \in {ISSUER, "another issuer"},
        a \in {AUDIENCE, "another audience"},
        drop \in DroppedClaims }

PresentedSignatures(genuine, header, claims, key) ==
    { genuine.sig,
      Sign(private_pem(key), header.alg, header, claims),
      Sign(OtherPem, header.alg, header, claims),
      [Sign(private_pem(key), header.alg, header, claims)
         EXCEPT !.bits = "flipped"] }

PresentedTokens(key, kid) ==
    UNION { UNION { UNION { { [enc |-> e, header |-> h, claims |-> c, sig |-> sg] :
                  e \in {"ok", "header", "crypto"},
                  sg \in PresentedSignatures(g, h, c, key) } :
              c \in PresentedClaims(g.claims) } :
          h \in PresentedHeaders(kid) } :
      g \in { issue_jwt_for_uid(<<"a">>, t, key, kid, 0).token :
                 t \in {0, ClockAhead} } }

PresentedCookies(key, kid) ==
    { <<>>, COOKIE_NAME :> EmptyString } \cup
    { COOKIE_NAME :> t : t \in PresentedTokens(key, kid) }

\* What a client may put in the display cookie beside that: nothing, an
\* expiry long past, one far in the future, or no number at all
FarFuture == 9999

PresentedDisplay ==
    { <<>> } \cup
    { COOKIE_EXP :> v : v \in { str(0), str(FarFuture), <<"x">> } }

----------------------------------------------------------------------------
(* The worker threads of the server: each handles one request at a time. *)

Workers == {"w1", "w2"}

----------------------------------------------------------------------------
Init ==
    /\ \E json \in LoadableJwks :
         LET l == LoadKey(json, 0)
         IN  /\ PRIV_JWK = l.jwk
             /\ KID = export_public(l.jwk).kid
             /\ uuidCalls = l.calls
    /\ clock = 0
    /\ issued = <<>>
    /\ jar = <<>>
    /\ req = [route |-> "none"]
    /\ resp = [route |-> "none"]
    /\ threads = [w \in Workers |-> [pc |-> "idle"]]

\* POST /issue from the browser
Issue(form) ==
    LET r == issue(form, clock, PRIV_JWK, KID, uuidCalls)
    IN  /\ r.made = <<>> \/ Len(issued) < MaxIssue
        /\ req' = [route |-> "/issue", form |-> form, now |-> clock,
                   before |-> [jar |-> jar, uuidCalls |-> uuidCalls,
                               issued |-> Len(issued)]]
        /\ resp' = r.resp
        /\ uuidCalls' = r.calls
        /\ issued' = issued \o r.made
        /\ jar' = ApplySetCookie(jar, r.resp.set_cookie, clock)
        /\ UNCHANGED <<PRIV_JWK, KID, clock, threads>>

\* GET /api/ping with the cookies the client sends
Ping(cookies) ==
    /\ req' = [route |-> "/api/ping", cookies |-> cookies, now |-> clock]
    /\ resp' = api_ping(cookies, clock, PRIV_JWK)
    /\ UNCHANGED <<PRIV_JWK, KID, clock, uuidCalls, issued, jar, threads>>

\* the browser calls with its jar
PingBrowser == Ping(BrowserCookies(jar, "/api/ping", clock))

\* a client presents a token it was issued earlier, whatever its jar holds
PingReplay == \E t \in IssuedTokens : Ping(COOKIE_NAME :> t)

\* GET /reset
Reset ==
    /\ req' = [route |-> "/reset", now |-> clock]
    /\ resp' = reset
    /\ jar' = ApplySetCookie(jar, reset.set_cookie, clock)
    /\ UNCHANGED <<PRIV_JWK, KID, clock, uuidCalls, issued, threads>>

\* GET /demo from the browser
Demo ==
    /\ req' = [route |-> "/demo", cookies |-> BrowserCookies(jar, "/demo", clock),
               now |-> clock]
    /\ resp' = demo(BrowserCookies(jar, "/demo", clock), KID)
    /\ UNCHANGED <<PRIV_JWK, KID, clock, uuidCalls, issued, jar, threads>>

\* GET /.well-known/jwks.json
Jwks ==
    /\ req' = [route |-> "/.well-known/jwks.json", now |-> clock]
    /\ resp' = jwks(PRIV_JWK)
    /\ PRIV_JWK' = public_jwk_obj_global(PRIV_JWK)
    /\ UNCHANGED <<KID, clock, uuidCalls, issued, jar, threads>>

\* time passes, to the next reading of the clock; the exchange of the
\* earlier instant is over
Advance ==
    /\ \E t \in ClockReadings :
         /\ t > clock
         /\ \A u \in ClockReadings : u > clock => t <= u
         /\ clock' = t
    /\ req' = [route |-> "none"]
    /\ resp' = [route |-> "none"]
    /\ UNCHANGED <<PRIV_JWK, KID, uuidCalls, issued, jar, threads>>

\* any client calls with any cookie, once per reading of the clock (a call
\* leaves nothing behind that the next one reads)
PingAny ==
    /\ req.route = "none"
    /\ \E cookies \in PresentedCookies(PRIV_JWK, KID), display \in PresentedDisplay :
         Ping(cookies @@ display)

Next ==
    \/ \E form \in Forms : Issue(form)
    \/ PingBrowser
    \/ PingReplay
    \/ Reset
    \/ Demo
    \/ Jwks
    \/ Advance

Spec == Init /\ [][Next]_vars

\* The protected call on every cookie a client can send, at every reading of
\* the clock
NextVerify ==
    \/ PingAny
    \/ Advance

SpecVerify == Init /\ [][NextVerify]_vars

----------------------------------------------------------------------------
(* Requests in flight.  The server handles requests on several threads;   *)
(* a handler runs in steps, one for each place where it reads what the    *)
(* threads share (the clock, uuid4, KID, PRIV_JWK), and the steps of the  *)
(* threads interleave freely, with the clock advancing in between.        *)

\* What the clients send: an issue with or without a uid, a protected call
\* without cookie or with a token issued earlier
ConcurrentForms == { <<>>, [uid |-> <<" ", "a", " ">>] }

ConcurrentCookies == { <<>> } \cup { COOKIE_NAME :> t : t \in IssuedTokens }

\* the thread has no request in hand
Free(w) == threads[w].pc \in {"idle", "done"}

\* the handler returns; `read` is what it has read of the clock and of
\* uuid4 on its way, if it has
Finish(w, request, read, r) ==
    threads' = [threads EXCEPT ![w] =
                  [pc |-> "done", request |-> request, resp |-> r] @@ read]

\* issue(), to the header of the token: the uid is trimmed and tested, the
\* clock read, the claims built with a uuid4 draw, KID read (441-446, 402-416)
IssueBuild(w, form) ==
    /\ Free(w)
    /\ LET request == [route |-> "/issue", form |-> form]
           uid == strip(IF "uid" \in DOMAIN form THEN form.uid ELSE <<>>)
       IN  IF uid = <<>>
           THEN /\ Finish(w, request, <<>>,
                          Response(400, "text", "UID is required"))
                /\ UNCHANGED uuidCalls
           ELSE /\ Len(issued)
                     + Cardinality({v \in Workers : threads[v].pc = "sign"})
                   < Cardinality(Workers)
                /\ threads' = [threads EXCEPT ![w] =
                      [pc |-> "sign", request |-> request,
                       now |-> clock, calls |-> uuidCalls, uid |-> uid,
                       claims |-> issue_claims(uid, clock, uuidCalls),
                       headers |-> issue_headers(KID, uuidCalls)]]
                /\ uuidCalls' = uuidCalls + 1
    /\ UNCHANGED <<PRIV_JWK, KID, clock, issued, jar, req, resp>>

\* issue(), from jwt.encode on: PRIV_JWK read for the PEM, the token signed,
\* the cookies set (417-418, 447-449)
IssueSign(w) ==
    /\ threads[w].pc = "sign"
    /\ LET t == threads[w]
           token == jwt_encode(t.claims, private_pem(PRIV_JWK), ALG, t.headers)
       IN  /\ Finish(w, t.request, [now |-> t.now, calls |-> t.calls],
                     set_session(redirect("/demo"), token, t.claims.exp))
           /\ issued' = Append(issued, [uid |-> t.uid, token |-> token,
                                        exp |-> t.claims.exp])
    /\ UNCHANGED <<PRIV_JWK, KID, clock, uuidCalls, jar, req, resp>>

\* api_ping(), to the header: the cookie read and the header parsed (460-468)
PingRead(w, cookies) ==
    /\ Free(w)
    /\ LET request == [route |-> "/api/ping", cookies |-> cookies]
       IN  IF COOKIE_NAME \notin DOMAIN cookies \/ cookies[COOKIE_NAME] = EmptyString
           THEN Finish(w, request, <<>>,
                  jsonify([ok |-> FALSE, error |-> <<"Missing JWT (Cookie)">>], 401))
           ELSE LET h == get_unverified_header(cookies[COOKIE_NAME])
                IN  IF h.exc # "none"
                    THEN Finish(w, request, <<>>,
                           jsonify([ok |-> FALSE,
                                    error |-> <<"Cannot read header: ", h.msg>>], 400))
                    ELSE threads' = [threads EXCEPT ![w] =
                           [pc |-> "decode", request |-> request,
                            header |-> h.header]]
    /\ UNCHANGED <<PRIV_JWK, KID, clock, uuidCalls, issued, jar, req, resp>>

\* api_ping(), from jwt.decode on: PRIV_JWK read for the PEM, the clock read
\* by the validation, the response built (469-493)
PingDecode(w) ==
    /\ threads[w].pc = "decode"
    /\ LET t == threads[w]
           d == jwt_decode(t.request.cookies[COOKIE_NAME], public_pem(PRIV_JWK),
                           {ALG}, AUDIENCE, ISSUER,
                           <<"exp", "iat", "nbf", "iss", "aud", "sub">>,
                           LEEWAY_SECONDS, clock)
       IN  Finish(w, t.request, [now |-> clock],
             IF d.exc = "none"
             THEN jsonify([ok |-> TRUE, message |-> "Validation successful",
                           now |-> clock, header |-> t.header,
                           claims |-> d.claims], 200)
             ELSE ping_error(d))
    /\ UNCHANGED <<PRIV_JWK, KID, clock, uuidCalls, issued, jar, req, resp>>

\* reset(), whole
ResetHandle(w) ==
    /\ Free(w)
    /\ Finish(w, [route |-> "/reset"], <<>>, reset)
    /\ UNCHANGED <<PRIV_JWK, KID, clock, uuidCalls, issued, jar, req, resp>>

\* jwks(), whole: PRIV_JWK read by public_jwk_obj()
JwksHandle(w) ==
    /\ Free(w)
    /\ Finish(w, [route |-> "/.well-known/jwks.json"], <<>>, jwks(PRIV_JWK))
    /\ PRIV_JWK' = public_jwk_obj_global(PRIV_JWK)
    /\ UNCHANGED <<KID, clock, uuidCalls, issued, jar, req, resp>>

NextConcurrent ==
    \/ \E w \in Workers, form \in ConcurrentForms : IssueBuild(w, form)
    \/ \E w \in Workers : IssueSign(w)
    \/ \E w \in Workers, cookies \in ConcurrentCookies : PingRead(w, cookies)
    \/ \E w \in Workers : PingDecode(w)
    \/ \E w \in Workers : ResetHandle(w)
    \/ \E w \in Workers : JwksHandle(w)
    \/ Advance

SpecConcurrent == Init /\ [][NextConcurrent]_vars

----------------------------------------------------------------------------
(* The vocabulary of the properties: what the last exchange was.  req and *)
(* resp hold the exchange made at the current reading of the clock.       *)

PingSeen == req.route = "/api/ping"

\* the call carried a non-empty authority cookie
HasToken ==
    /\ PingSeen
    /\ COOKIE_NAME \in DOMAIN req.cookies
    /\ req.cookies[COOKIE_NAME] # EmptyString

Presented == req.cookies[COOKIE_NAME]

Accepted ==
    /\ resp.status = 200
    /\ resp.kind = "json"
    /\ resp.body.ok = TRUE

\* a failure of exactly the shape {ok: false, error: ...}
Rejected(status, error) ==
    /\ resp.status = status
    /\ resp.kind = "json"
    /\ resp.body = [ok |-> FALSE, error |-> error]

\* a PS512 signature by the provider's key over the very header and claims
\* the token presents
SignedByProvider(t) ==
    /\ t.sig.bits = "intact"
    /\ t.sig.n = PRIV_JWK.n
    /\ t.sig.alg = ALG
    /\ t.sig.header = t.header
    /\ t.sig.claims = t.claims

RequiredClaims == {"exp", "iat", "nbf", "iss", "aud", "sub"}

SignatureMessages ==
    {"Signature verification failed", "The specified alg value is not allowed",
     "Algorithm not specified"}

NotYetValidMessages ==
    {"The token is not yet valid (iat)", "The token is not yet valid (nbf)"}

\* The failure mode a response reports
ClassOf(r) ==
    IF r.status = 200 /\ r.body.ok = TRUE THEN "ok"
    ELSE IF r.kind # "json" \/ DOMAIN r.body # {"ok", "error"} THEN "other"
    ELSE IF r.status = 400 /\ Head(r.body.error) = "Cannot read header: "
    THEN "malformed"
    ELSE IF r.status # 401 THEN "other"
    ELSE IF r.body.error = <<"Missing JWT (Cookie)">> THEN "missing"
    ELSE IF r.body.error = <<"Token expired">> THEN "expired"
    ELSE IF r.body.error = <<"iss mismatch">> THEN "issuer"
    ELSE IF r.body.error = <<"aud mismatch">> THEN "audience"
    ELSE IF Head(r.body.error) # "Invalid Token: " THEN "other"
    ELSE IF r.body.error[2] \in SignatureMessages THEN "signature"
    ELSE IF r.body.error[2] \in RequiredClaims THEN "claims-missing"
    ELSE IF r.body.error[2] \in NotYetValidMessages THEN "not-yet-valid"
    ELSE "other"

\* The first failing check of a fixed sequence of checks: token absent,
\* segments unreadable, signature/algorithm, required claims, (with
\* notBefore: issued-at or not-before still in the future,) expiry, issuer,
\* audience
FirstFailing(cookies, now, notBefore) ==
    IF COOKIE_NAME \notin DOMAIN cookies \/ cookies[COOKIE_NAME] = EmptyString
    THEN "missing"
    ELSE LET t == cookies[COOKIE_NAME]
         IN  IF t.enc # "ok" THEN "malformed"
             ELSE IF t.header.alg # ALG \/ ~ SignedByProvider(t)
             THEN "signature"
             ELSE IF RequiredClaims \ DOMAIN t.claims # {}
             THEN "claims-missing"
             ELSE IF /\ notBefore
                     /\ \/ t.claims.iat > now + LEEWAY_SECONDS
                        \/ t.claims.nbf > now + LEEWAY_SECONDS
             THEN "not-yet-valid"
             ELSE IF t.claims.exp + LEEWAY_SECONDS <= now THEN "expired"
             ELSE IF t.claims.iss # ISSUER THEN "issuer"
             ELSE IF t.claims.aud # AUDIENCE THEN "audience"
             ELSE "ok"

----------------------------------------------------------------------------
(* C1 *)

\* C1: a token made by issue_jwt_for_uid for a subject that is non-empty
\* after trimming, presented unmodified to /api/ping at the clock reading of
\* its issue, is accepted, and the claims returned have sub equal to that
\* subject, iss equal to ISSUER and aud equal to AUDIENCE.
C1_IssueThenVerify ==
    \A i \in DOMAIN issued :
        /\ issued[i].uid # <<>>
        /\ (HasToken /\ Presented = issued[i].token
                     /\ req.now = issued[i].token.claims.iat)
           => /\ Accepted
              /\ resp.body.claims.sub = issued[i].uid
              /\ resp.body.claims.iss = ISSUER
              /\ resp.body.claims.aud = AUDIENCE

\* a token for "a b" (posted as such) verified in the second of its issue
C1_Witness ==
    /\ HasToken
    /\ Accepted
    /\ \E i \in DOMAIN issued :
         /\ Presented = issued[i].token
         /\ req.now = issued[i].token.claims.iat
         /\ issued[i].uid = <<"a", " ", "b">>
         /\ resp.body.claims.sub = <<"a", " ", "b">>

----------------------------------------------------------------------------
(* C2 *)

\* C2: every token issued, at any clock reading and for any subject, has
\* exp - iat = 30 and nbf = iat - LEEWAY_SECONDS <= iat, and the expiry the
\* issuer returns to its caller is the exp claim of the token.
C2_ValidityWindow ==
    \A i \in DOMAIN issued :
        LET c == issued[i].token.claims
        IN  /\ c.exp - c.iat = 30
            /\ c.nbf = c.iat - LEEWAY_SECONDS
            /\ c.nbf <= c.iat
            /\ issued[i].exp = c.exp

\* two tokens issued at different readings of the clock, for different
\* subjects
C2_Witness ==
    /\ Len(issued) >= 2
    /\ issued[1].token.claims.iat # issued[2].token.claims.iat
    /\ issued[1].uid # issued[2].uid

----------------------------------------------------------------------------
(* C3 *)

\* C3: an issued, unmodified token presented to /api/ping at a clock reading
\* later than exp + LEEWAY_SECONDS is rejected with {ok: false, error:
\* "Token expired"} and status 401.
C3_ExpiredAfterWindow ==
    \A i \in DOMAIN issued :
        (HasToken /\ Presented = issued[i].token
                  /\ req.now > issued[i].token.claims.exp + LEEWAY_SECONDS)
        => Rejected(401, <<"Token expired">>)

\* a token issued at 0 and presented at 33 > 30 + 2
C3_Witness ==
    /\ HasToken
    /\ \E i \in DOMAIN issued :
         /\ Presented = issued[i].token
         /\ req.now > issued[i].token.claims.exp + LEEWAY_SECONDS
    /\ resp.status = 401

----------------------------------------------------------------------------
(* C4 *)

\* C4 as claimed: a token (with a readable header) whose signature does not
\* verify against the provider's public key, be it that the signature
\* segment does not even decode, is always rejected as a signature failure
\* with status 401.
C4_AsClaimed ==
    (HasToken /\ Presented.enc # "header"
              /\ (Presented.enc = "crypto" \/ ~ SignedByProvider(Presented)))
    => /\ resp.status = 401
       /\ ClassOf(resp) = "signature"

\* C4, amended: a token whose segments decode and whose signature does not
\* verify against the provider's public key under PS512 is rejected with
\* status 401 as an invalid token (signature verification failed, or the
\* algorithm is not allowed); a token with a segment that does not decode,
\* the signature segment included, is rejected before that with status 400
\* ("Cannot read header"); either response holds only ok: false and error,
\* no claims and no header.
C4_BadSignatureRejected ==
    /\ (HasToken /\ Presented.enc = "ok" /\ ~ SignedByProvider(Presented))
       => /\ resp.status = 401
          /\ ClassOf(resp) = "signature"
          /\ DOMAIN resp.body = {"ok", "error"}
          /\ resp.body.ok = FALSE
    /\ (HasToken /\ Presented.enc # "ok")
       => /\ resp.status = 400
          /\ ClassOf(resp) = "malformed"
          /\ DOMAIN resp.body = {"ok", "error"}
          /\ resp.body.ok = FALSE

\* a token as the issuer makes it, still inside its window, with one bit of
\* its signature flipped
C4_Witness ==
    /\ HasToken
    /\ Presented.enc = "ok"
    /\ Presented.header = [alg |-> ALG, kid |-> KID, typ |-> "JWT"]
    /\ Presented.sig.bits = "flipped"
    /\ RequiredClaims \subseteq DOMAIN Presented.claims
    /\ Presented.claims.iss = ISSUER
    /\ Presented.claims.exp > req.now
    /\ Rejected(401, <<"Invalid Token: ", "Signature verification failed">>)

----------------------------------------------------------------------------
(* C5 *)

\* C5: the verifier accepts the one algorithm ALG = PS512, fixed by the
\* server: a token whose header declares another algorithm, "none"
\* included, is rejected whatever its claims and signature, never accepted.
C5_AlgorithmPinned ==
    (HasToken /\ Presented.header.alg # ALG)
    => /\ ~ Accepted
       /\ resp.body.ok = FALSE
       /\ resp.status \in {400, 401}
       /\ Presented.enc = "ok"
          => Rejected(401, <<"Invalid Token: ",
                             "The specified alg value is not allowed">>)

\* an RS256 token that the holder of the server's key signed, with every
\* claim in order, is refused for its algorithm
C5_Witness ==
    /\ HasToken
    /\ Presented.enc = "ok"
    /\ Presented.header.alg = "RS256"
    /\ Presented.sig = Sign(private_pem(PRIV_JWK), "RS256", Presented.header,
                            Presented.claims)
    /\ RequiredClaims \subseteq DOMAIN Presented.claims
    /\ Presented.claims.iss = ISSUER
    /\ Presented.claims.aud = AUDIENCE
    /\ Presented.claims.iat = req.now
    /\ resp.status = 401

----------------------------------------------------------------------------
(* C6 *)

\* C6 as claimed: a token whose header kid differs from the provider's KID
\* is rejected by /api/ping.
C6_AsClaimed ==
    (HasToken /\ Presented.header.kid # KID) => ~ Accepted

\* C6, amended: the verifier does not check the key identifier.  A token
\* whose header kid differs from KID is accepted when its signature verifies
\* under the provider's public key and its claims pass, the response showing
\* the token's own kid; an issued token whose kid was altered is rejected
\* only because its signature, which covers the header, no longer verifies.
C6_KidNotChecked ==
    (HasToken /\ Presented.enc = "ok" /\ Presented.header.kid # KID)
    => /\ (SignedByProvider(Presented)
             /\ FirstFailing(req.cookies, req.now, TRUE) = "ok")
          => (Accepted /\ resp.body.header.kid = Presented.header.kid)
       /\ (Presented.header.alg = ALG /\ ~ SignedByProvider(Presented))
          => Rejected(401, <<"Invalid Token: ",
                             "Signature verification failed">>)

\* both cases: a foreign kid under a signature of the provider's key,
\* accepted
C6_Witness ==
    /\ HasToken
    /\ Presented.header.kid # KID
    /\ SignedByProvider(Presented)
    /\ Accepted
    /\ resp.body.header.kid # KID

----------------------------------------------------------------------------
(* C7 *)

\* C7 as claimed: the outcome of a verification is the first failing check
\* of: token absent, header unreadable, signature/algorithm, required claims,
\* expiry, issuer, audience.
C7_AsClaimed ==
    PingSeen => ClassOf(resp) = FirstFailing(req.cookies, req.now, FALSE)

\* C7, amended: the checks of one verification run in the fixed order: token
\* absent, segments unreadable, signature/algorithm, required claims, not
\* yet valid (iat or nbf later than now + LEEWAY_SECONDS), expiry, issuer,
\* audience; the first failing check determines the failure reported and no
\* later check contributes.  So an expired token with a wrong issuer yields
\* "Token expired", wrong issuer and wrong audience yield "iss mismatch", and
\* a bad signature yields the signature failure whatever the claims.
C7_CheckOrder ==
    PingSeen => ClassOf(resp) = FirstFailing(req.cookies, req.now, TRUE)

\* a token of the provider's key, expired, with a wrong issuer and a wrong
\* audience: reported as expired
C7_Witness ==
    /\ HasToken
    /\ Presented.enc = "ok"
    /\ SignedByProvider(Presented)
    /\ RequiredClaims \subseteq DOMAIN Presented.claims
    /\ Presented.claims.exp + LEEWAY_SECONDS <= req.now
    /\ Presented.claims.iss # ISSUER
    /\ Presented.claims.aud # AUDIENCE
    /\ Rejected(401, <<"Token expired">>)

----------------------------------------------------------------------------
(* C8 *)

\* C8: the key id is fixed at load: in every reachable state the kid in the
\* header of every token issued so far is KID and is the kid of the JWK the
\* discovery endpoint returns, also when the kid was generated at load.
C8_KidStable ==
    /\ KID = export_public(PRIV_JWK).kid
    /\ \A i \in DOMAIN issued :
         /\ issued[i].token.header.kid = KID
         /\ issued[i].token.header.kid = jwks(PRIV_JWK).body.keys[1].kid
    /\ req.route = "/.well-known/jwks.json"
       => /\ Len(resp.body.keys) = 1
          /\ resp.body.keys[1].kid = KID

\* the key was loaded without a kid, two tokens were issued, and the
\* discovery endpoint has just answered
C8_Witness ==
    /\ req.route = "/.well-known/jwks.json"
    /\ KID = uuid4_hex(0)
    /\ Len(issued) >= 2
    /\ resp.body.keys[1].kid = issued[2].token.header.kid

----------------------------------------------------------------------------
(* C9 *)

\* C9: any two issue calls, also with the same subject in the same second,
\* make tokens with different jti (uuid4 taken as never repeating).
C9_JtiUnique ==
    \A i, j \in DOMAIN issued :
        i # j => issued[i].token.claims.jti # issued[j].token.claims.jti

\* two calls with the same subject in the same second
C9_Witness ==
    /\ Len(issued) >= 2
    /\ issued[1].uid = issued[2].uid
    /\ issued[1].token.claims.iat = issued[2].token.claims.iat

----------------------------------------------------------------------------
(* C10 *)

\* the uid of the posted form is missing, empty or only whitespace
BlankUid(form) ==
    \/ "uid" \notin DOMAIN form
    \/ \A k \in DOMAIN form.uid : form.uid[k] = " "

\* C10: an issue request whose subject is missing, empty or only whitespace
\* gets status 400, the issuer is not called, and the response sets no
\* cookie: the client's cookie pair is after the request what it was before.
C10_BlankSubjectRejected ==
    (req.route = "/issue" /\ BlankUid(req.form))
    => /\ resp.status = 400
       /\ resp.set_cookie = <<>>
       /\ jar = req.before.jar
       /\ uuidCalls = req.before.uuidCalls
       /\ Len(issued) = req.before.issued

\* a client that holds a session posts a uid of two spaces
C10_Witness ==
    /\ req.route = "/issue"
    /\ req.form = [uid |-> <<" ", " ">>]
    /\ <<COOKIE_NAME, "/">> \in DOMAIN jar
    /\ <<COOKIE_EXP, "/demo">> \in DOMAIN jar
    /\ resp.status = 400

----------------------------------------------------------------------------
(* C11 *)

\* C11: a protected call that carries no authority cookie, the cookie being
\* absent or sent with an empty value, is answered {ok: false, error:
\* "Missing JWT (Cookie)"} with status 401; the answer is not one of the
\* header reader or of the verifier.
C11_MissingCookie ==
    (PingSeen /\ ~ HasToken)
    => /\ Rejected(401, <<"Missing JWT (Cookie)">>)
       /\ ClassOf(resp) = "missing"
       /\ ClassOf(resp) \notin {"malformed", "signature", "claims-missing"}

\* the cookie is there, with an empty value
C11_Witness ==
    /\ PingSeen
    /\ COOKIE_NAME \in DOMAIN req.cookies
    /\ req.cookies[COOKIE_NAME] = EmptyString
    /\ resp.status = 401
    /\ resp.body.error = <<"Missing JWT (Cookie)">>

----------------------------------------------------------------------------
(* C12 *)

\* a failure body: ok: false and a non-empty error string, nothing else
FailureBody(r) ==
    /\ r.kind = "json"
    /\ DOMAIN r.body = {"ok", "error"}
    /\ r.body.ok = FALSE
    /\ r.body.error # <<>>

\* C12 as claimed: a protected call that fails has a body of ok: false and
\* an error string, with status 400 exactly when the header of the token is
\* unreadable and 401 for every other failure; ok: true comes only when all
\* checks passed.
C12_AsClaimed ==
    PingSeen
    => /\ Accepted => FirstFailing(req.cookies, req.now, TRUE) = "ok"
       /\ ~ Accepted
          => /\ FailureBody(resp)
             /\ resp.status = 400 <=> (HasToken /\ Presented.enc = "header")
             /\ resp.status # 400 => resp.status = 401

\* C12, amended: a protected call that fails has a body of ok: false and an
\* error string, with status 400 exactly when the header-reading step fails,
\* which is when any of the three segments of the token does not decode (the
\* header, or the signature segment of a token whose header is readable),
\* and 401 for every other failure (missing, signature or algorithm, missing
\* required claim, not yet valid, expired, issuer, audience); ok: true comes
\* only when all checks passed.
C12_StatusCodes ==
    PingSeen
    => /\ Accepted => FirstFailing(req.cookies, req.now, TRUE) = "ok"
       /\ ~ Accepted
          => /\ FailureBody(resp)
             /\ resp.status = 400 <=> (HasToken /\ Presented.enc # "ok")
             /\ resp.status # 400 => resp.status = 401

\* a token as issued, inside its window, its header readable, the signature
\* segment not decodable: 400
C12_Witness ==
    /\ HasToken
    /\ Presented.enc = "crypto"
    /\ Presented.header = [alg |-> ALG, kid |-> KID, typ |-> "JWT"]
    /\ SignedByProvider(Presented)
    /\ FailureBody(resp)
    /\ resp.status = 400

----------------------------------------------------------------------------
(* C13 *)

\* C13: every failure response of every endpoint (status 4xx or 5xx), the
\* rejection of an empty subject by /issue and every failure of /api/ping
\* included, is a JSON object with ok: false and an error string.
C13_AllFailuresJson ==
    (req.route # "none" /\ resp.status >= 400) => FailureBody(resp)

----------------------------------------------------------------------------
(* C14 *)

\* the directives of the last response that set, or delete, the cookie `name`
Setting(name) ==
    { resp.set_cookie[i] : i \in { k \in DOMAIN resp.set_cookie :
         resp.set_cookie[k].name = name /\ resp.set_cookie[k].max_age > 0 } }

Deleting(name) ==
    { resp.set_cookie[i] : i \in { k \in DOMAIN resp.set_cookie :
         resp.set_cookie[k].name = name /\ resp.set_cookie[k].max_age <= 0 } }

\* C14: the two session cookies are handled as a pair.  Every response that
\* sets the authority cookie (HttpOnly, path "/") also sets the display
\* cookie (not HttpOnly, path "/demo") with the same max-age and with the
\* decimal exp claim of the token in the authority cookie as its value, and
\* conversely; every response that deletes one deletes the other, each at
\* its own path; so the client holds both or neither.
C14_CookiePair ==
    /\ req.route # "none"
       => /\ \A d \in Setting(COOKIE_NAME) :
                /\ d.httponly /\ d.path = "/"
                /\ \E e \in Setting(COOKIE_EXP) :
                     /\ ~ e.httponly /\ e.path = "/demo"
                     /\ e.max_age = d.max_age
                     /\ e.value = str(d.value.claims.exp)
                     /\ int(e.value) = [exc |-> "none",
                                        value |-> d.value.claims.exp]
          /\ Setting(COOKIE_EXP) # {} => Setting(COOKIE_NAME) # {}
          /\ Deleting(COOKIE_NAME) # {} <=> Deleting(COOKIE_EXP) # {}
          /\ \A d \in Deleting(COOKIE_NAME) : d.path = "/"
          /\ \A e \in Deleting(COOKIE_EXP) : e.path = "/demo"
          /\ Setting(COOKIE_NAME) = {} \/ Deleting(COOKIE_NAME) = {}
    /\ <<COOKIE_NAME, "/">> \in DOMAIN jar <=> <<COOKIE_EXP, "/demo">> \in DOMAIN jar
    /\ <<COOKIE_NAME, "/">> \in DOMAIN jar
       => /\ jar[<<COOKIE_NAME, "/">>].expires = jar[<<COOKIE_EXP, "/demo">>].expires
          /\ jar[<<COOKIE_EXP, "/demo">>].value
               = str(jar[<<COOKIE_NAME, "/">>].value.claims.exp)
    /\ DOMAIN jar \subseteq {<<COOKIE_NAME, "/">>, <<COOKIE_EXP, "/demo">>}

\* a token issued late (exp = 59 or more, two digits) was just bound
C14_Witness ==
    /\ req.route = "/issue"
    /\ resp.status = 302
    /\ Setting(COOKIE_NAME) # {}
    /\ \E e \in Setting(COOKIE_EXP) : Len(e.value) = 2 /\ int(e.value).value >= 59

\* the pair was just deleted from a jar that held it
C14_WitnessReset ==
    /\ req.route = "/reset"
    /\ Deleting(COOKIE_NAME) # {}
    /\ Len(issued) >= 1
    /\ jar = <<>>

----------------------------------------------------------------------------
(* C15 *)

\* the cookies of a request without the display cookie
WithoutDisplay(cookies) ==
    [name \in (DOMAIN cookies) \ {COOKIE_EXP} |-> cookies[name]]

\* C15: the display cookie carries no authority.  The response to a
\* protected call is the response to the call with the same authority cookie
\* at the same clock reading and any other display cookie (absent, altered,
\* far in the future): any two such calls have the same outcome, status and
\* claims.
C15_DisplayNoAuthority ==
    PingSeen
    => /\ \A display \in PresentedDisplay :
            resp = api_ping(WithoutDisplay(req.cookies) @@ display, req.now,
                            PRIV_JWK)
       /\ ClassOf(resp) = FirstFailing(WithoutDisplay(req.cookies), req.now, TRUE)

\* an expired token beside a display cookie that states an expiry far in the
\* future: expired
C15_Witness ==
    /\ HasToken
    /\ COOKIE_EXP \in DOMAIN req.cookies
    /\ int(req.cookies[COOKIE_EXP]).exc = "none"
    /\ int(req.cookies[COOKIE_EXP]).value > req.now + LEEWAY_SECONDS
    /\ Presented.enc = "ok"
    /\ SignedByProvider(Presented)
    /\ Rejected(401, <<"Token expired">>)

----------------------------------------------------------------------------
(* C16 *)

\* C16: the discovery endpoint returns a key set with exactly one entry, the
\* public descriptor of the loaded key; the descriptor has use = "sig" and
\* alg = ALG whatever use and alg members the loaded key material carried,
\* and it has no private key parameter.
C16_DescriptorForSigning ==
    req.route = "/.well-known/jwks.json"
    => /\ resp.status = 200
       /\ Len(resp.body.keys) = 1
       /\ LET pub == resp.body.keys[1]
          IN  /\ pub.kty = PRIV_JWK.kty /\ pub.n = PRIV_JWK.n /\ pub.e = PRIV_JWK.e
              /\ pub.kid = KID
              /\ pub.use = "sig"
              /\ pub.alg = ALG
              /\ DOMAIN pub \cap PrivateMembers = {}

----------------------------------------------------------------------------
(* C18 *)

\* the browser holds no authority cookie
NoAuthorityCookie == <<COOKIE_NAME, "/">> \notin DOMAIN jar

\* the last exchange was a protected call with the cookies of the jar
BrowserPing ==
    /\ PingSeen
    /\ req.cookies = BrowserCookies(jar, "/api/ping", req.now)

\* C18: after a reset, for a client that applies the cookie directives of
\* the responses, every protected call made before the next successful issue
\* is answered with the missing-token failure (401, "Missing JWT (Cookie)"),
\* whatever validity the last token has left: the reset leaves the jar
\* without authority cookie, only a successful issue puts one back, and a
\* call from a jar without it fails as missing.
C18_ResetEndsSession ==
    [][/\ req'.route = "/reset" => NoAuthorityCookie'
       /\ (NoAuthorityCookie /\ ~ (req'.route = "/issue" /\ resp'.status = 302))
          => NoAuthorityCookie'
       /\ (BrowserPing' /\ NoAuthorityCookie')
          => Rejected(401, <<"Missing JWT (Cookie)">>)']_vars

\* a token was issued and is still inside its window, the session was then
\* reset, and the browser calls
C18_Witness ==
    /\ BrowserPing
    /\ NoAuthorityCookie
    /\ \E i \in DOMAIN issued :
         /\ issued[i].token.claims.iat <= req.now
         /\ req.now < issued[i].exp
    /\ Rejected(401, <<"Missing JWT (Cookie)">>)

----------------------------------------------------------------------------
(* C19 *)

\* C19: the lifetime of the authority cookie (max-age 32 from the binding)
\* covers the whole acceptance period of the token in it.  For a token
\* issued at iat and bound at a time >= iat that no reset has removed since,
\* at every clock reading t with iat <= t < exp + LEEWAY_SECONDS the browser
\* still holds and sends the cookie and the protected call with it succeeds:
\* inside that window the token is not rejected as expired or as not yet
\* valid and the cookie is not dropped.
C19_CookieCoversWindow ==
    ~ NoAuthorityCookie
    => LET kept == jar[<<COOKIE_NAME, "/">>]
           token == kept.value
           sent == BrowserCookies(jar, "/api/ping", clock)
       IN  (token.claims.iat <= clock
              /\ clock < token.claims.exp + LEEWAY_SECONDS)
           => /\ kept.expires > clock
              /\ COOKIE_NAME \in DOMAIN sent
              /\ sent[COOKIE_NAME] = token
              /\ FirstFailing(sent, clock, TRUE) = "ok"
              /\ BrowserPing
                 => /\ Accepted
                    /\ resp.body.claims = token.claims

\* the browser calls in the last second of the window, exp + LEEWAY - 1
C19_Witness ==
    /\ BrowserPing
    /\ ~ NoAuthorityCookie
    /\ HasToken
    /\ Presented = jar[<<COOKIE_NAME, "/">>].value
    /\ req.now = Presented.claims.exp + LEEWAY_SECONDS - 1
    /\ Accepted

----------------------------------------------------------------------------
(* C20 *)

\* C20: verification neither consumes nor revokes a token.  After any
\* history of issues, calls and resets, an issued token presented unmodified
\* at a clock reading inside its acceptance window (iat <= now < exp +
\* LEEWAY_SECONDS) is accepted, with its own claims: a second presentation
\* as the first, and after a reset or a later issue as before.
C20_NoRevocation ==
    \A i \in DOMAIN issued :
        (HasToken /\ Presented = issued[i].token
                  /\ issued[i].token.claims.iat <= req.now
                  /\ req.now < issued[i].exp + LEEWAY_SECONDS)
        => /\ Accepted
           /\ resp.body.claims = issued[i].token.claims
           /\ resp.body.header = issued[i].token.header

\* the first of two tokens, presented after the second was issued and the
\* session was reset
C20_Witness ==
    /\ HasToken
    /\ Len(issued) = 2
    /\ Presented = issued[1].token
    /\ Presented # issued[2].token
    /\ NoAuthorityCookie
    /\ req.now > issued[1].token.claims.iat
    /\ Accepted

----------------------------------------------------------------------------
(* C17 *)

\* the response the handler gives to the request of a finished thread when
\* it runs alone, from its first line to its last, at the clock reading the
\* thread took and with the uuid4 draw it made (if it came to them)
Alone(t) ==
    LET now == IF "now" \in DOMAIN t THEN t.now ELSE 0
        calls == IF "calls" \in DOMAIN t THEN t.calls ELSE 0
    IN  CASE t.request.route = "/issue"
               -> issue(t.request.form, now, PRIV_JWK, KID, calls).resp
          [] t.request.route = "/api/ping"
               -> api_ping(t.request.cookies, now, PRIV_JWK)
          [] t.request.route = "/reset" -> reset
          [] t.request.route = "/.well-known/jwks.json" -> jwks(PRIV_JWK)

\* C17: issuance and verification share no mutable state after the key is
\* loaded.  Under every interleaving of the steps of concurrently executing
\* issue, protected-call, reset and key-discovery requests, the response of
\* each request is the response it gets when run alone at the same clock
\* reading with the same cookies, and no step of any request modifies the
\* key or KID.
C17_NoSharedMutableState ==
    /\ [](\A w \in Workers :
            threads[w].pc = "done" => threads[w].resp = Alone(threads[w]))
    /\ [][PRIV_JWK' = PRIV_JWK /\ KID' = KID]_vars

\* a protected call has run from its first step to its answer, 200, at a
\* later clock reading than the one an issue took that still stands between
\* its claims and its signature
C17_Witness ==
    /\ threads["w1"].pc = "sign"
    /\ threads["w2"].pc = "done"
    /\ threads["w2"].request.route = "/api/ping"
    /\ threads["w2"].resp.status = 200
    /\ threads["w1"].now < threads["w2"].now

====
